---- MODULE Spec2Model ----
(***************************************************************************)
(* rover (src/main.go): extract one named entry of a remote ZIP archive    *)
(* through HTTP range reads.                                               *)
(*                                                                         *)
(* The model follows main.go: init() (flag handling), main() (reader       *)
(* construction, directory parsing, output creation, findFile,             *)
(* downloadFile, exit status) and the background worker that downloadFile  *)
(* starts (file.Open, the io.ReadFull copy loop, the completion channel).  *)
(*                                                                         *)
(* What main.go calls but does not contain is environment: the ranger      *)
(* reader, archive/zip and the local file system.  Each such call is a     *)
(* nondeterministic step at its call site, restricted only by the          *)
(* documented contract of the callee:                                      *)
(*   - io.ReadFull returns n = len(buf) with a nil error, or n < len(buf)  *)
(*     with a non-nil error (io.EOF only when n = 0);                      *)
(*   - the archive/zip entry reader never delivers more than               *)
(*     UncompressedSize64 bytes (it answers ErrFormat instead), reports    *)
(*     io.ErrUnexpectedEOF for a short stream, and once it has failed it   *)
(*     keeps delivering nothing;                                           *)
(*   - a Store entry's data region is read only while bytes of it remain;  *)
(*     a Deflate entry's data region is never empty and is read to find    *)
(*     the end of the stream;                                              *)
(*   - writer.Write is taken to write all n bytes.                         *)
(* Strings are sequences of one-character strings, so that slicing and     *)
(* filepath.Base are computed as the code computes them.                   *)
(***************************************************************************)
EXTENDS Integers, Sequences, FiniteSets, TLC

VARIABLES
    sourceURL,   \* -u was given (non-empty)
    remoteFile,  \* -r
    localFile,   \* -o
    verbose,     \* -v
    showFiles,   \* -l
    mpc,         \* position of the main sequence (init, then main)
    exitCode,    \* -1 while the process runs, else its exit status
    err,         \* main's err after downloadFile: "nil" or "err"
    dirReads,    \* reads issued so far by zip.NewReader
    zipNames,    \* zipreader.File, as the sequence of entry names
    file,        \* foundFile: the entry handed to downloadFile, or NoFile
    fileExists,  \* the local output file is on disk
    fileLen,     \* bytes the output (file or stdout) holds
    wpc,         \* position of downloadFile's background worker
    sendVal,     \* the value the worker is sending on errCh
    sent,        \* values received from errCh so far
    rcState,     \* the entry reader rc: "closed", "open", "eof", "err"
    nread,       \* bytes rc has delivered
    downloaded,  \* the worker's running byte count
    pct,         \* the last percentage passed to progressBar
    iters,       \* iterations of the copy loop started and finished
    dataReads,   \* reads rc issued over the entry's data region (ReadAt calls)
    touched,     \* the ReadFull in progress reads the data region
    inflight,    \* requests against the remote resource now in flight
    openFailed,  \* file.Open failed                          (history)
    readFailed   \* a read of the entry failed in the copy loop (history)

vars == <<sourceURL, remoteFile, localFile, verbose, showFiles, mpc, exitCode,
          err, dirReads, zipNames, file, fileExists, fileLen, wpc, sendVal,
          sent, rcState, nread, downloaded, pct, iters, dataReads, touched,
          inflight, openFailed, readFailed>>

flagVars == <<sourceURL, remoteFile, verbose, showFiles>>
workerVars == <<wpc, sendVal, rcState, nread, downloaded, pct, iters,
                dataReads, touched, openFailed, readFailed>>

----------------------------------------------------------------------------
(* Bounds of the model *)

\* largest declared or actual entry size, in bytes
MaxSize == 3
\* len(buf); stands for 128*1024, scaled so that an entry spans several reads
BufSize == 2
\* reads zip.NewReader may issue (end-of-central-directory, directory)
MaxDirReads == 2
\* cap of the event counters iters, dataReads and sent
MaxCount == 4

Min(a, b) == IF a < b THEN a ELSE b
Bump(c) == Min(c + 1, MaxCount)

NoFile == [usize |-> -1, actual |-> -1, method |-> "none"]

\* values of -r and -o the model draws from
CliNames == {<<>>, <<"a">>, <<"d", "/", "a">>}
CliOutputs == {<<>>, <<"-">>, <<"o">>}
\* central directories the remote archive may hold
ZipDirs == {<<>>, << <<"a">> >>, << <<"x">>, <<"d", "/", "a">> >>,
            << <<"a">>, <<"d", "/", "a">> >>}
Entries == [usize : 0..MaxSize, actual : 0..MaxSize, method : {"Store", "Deflate"}]

----------------------------------------------------------------------------
(* init(): src/main.go 30-57 *)

RECURSIVE StripTrailing(_)
StripTrailing(p) ==
    IF Len(p) > 0 /\ p[Len(p)] = "/"
    THEN StripTrailing(SubSeq(p, 1, Len(p) - 1))
    ELSE p

RECURSIVE LastSep(_, _)
LastSep(p, i) ==
    IF i >= 1 /\ p[i] # "/" THEN LastSep(p, i - 1) ELSE i

\* filepath.Base
Base(path) ==
    IF path = <<>> THEN <<".">>
    ELSE LET s == StripTrailing(path)
             i == LastSep(s, Len(s))
             t == IF i >= 1 THEN SubSeq(s, i + 1, Len(s)) ELSE s
         IN IF t = <<>> THEN <<"/">> ELSE t

\* remoteFile[:len(filepath.Base(remoteFile))]
DefaultLocalFile(r) == SubSeq(r, 1, Len(Base(r)))

Init ==
    /\ sourceURL \in BOOLEAN
    /\ remoteFile \in CliNames
    /\ localFile \in CliOutputs
    /\ verbose \in BOOLEAN
    /\ showFiles \in BOOLEAN
    /\ mpc = "init"
    /\ exitCode = -1
    /\ err = "nil"
    /\ dirReads = 0
    /\ zipNames = <<>>
    /\ file = NoFile
    /\ fileExists = FALSE
    /\ fileLen = 0
    /\ wpc = "none"
    /\ sendVal = "nil"
    /\ sent = 0
    /\ rcState = "closed"
    /\ nread = 0
    /\ downloaded = 0
    /\ pct = 0
    /\ iters = 0
    /\ dataReads = 0
    /\ touched = FALSE
    /\ inflight = 0
    /\ openFailed = FALSE
    /\ readFailed = FALSE

\* os.Exit(code), or main returning (code 0)
Exit(code) == mpc' = "exit" /\ exitCode' = code

InitFlags ==
    /\ mpc = "init"
    /\ IF ~sourceURL
       THEN Exit(1) /\ UNCHANGED localFile
       ELSE IF ~showFiles /\ remoteFile = <<>>
       THEN Exit(1) /\ UNCHANGED localFile
       ELSE /\ mpc' = "newReader"
            /\ UNCHANGED exitCode
            /\ localFile' = IF ~showFiles /\ localFile = <<>>
                            THEN DefaultLocalFile(remoteFile)
                            ELSE localFile
    /\ UNCHANGED <<flagVars, err, dirReads, zipNames, file, fileExists,
                   fileLen, sent, inflight>>
    /\ UNCHANGED workerVars

----------------------------------------------------------------------------
(* main(): src/main.go 165-222 *)

\* ranger.NewReader(...): the reader is built by probing the remote resource
NewReaderStart ==
    /\ mpc = "newReader"
    /\ mpc' = "newReaderWait"
    /\ inflight' = inflight + 1
    /\ UNCHANGED <<flagVars, localFile, exitCode, err, dirReads, zipNames,
                   file, fileExists, fileLen, sent>>
    /\ UNCHANGED workerVars

NewReaderDone ==
    /\ mpc = "newReaderWait"
    /\ inflight' = inflight - 1
    /\ \E ok \in BOOLEAN :
         IF ok THEN mpc' = "zipNew" /\ UNCHANGED exitCode ELSE Exit(1)
    /\ UNCHANGED <<flagVars, localFile, err, dirReads, zipNames, file,
                   fileExists, fileLen, sent>>
    /\ UNCHANGED workerVars

\* zip.NewReader(reader, reader.Length()): one read of the remote resource
ZipNewStart ==
    /\ mpc = "zipNew"
    /\ mpc' = "zipNewWait"
    /\ inflight' = inflight + 1
    /\ dirReads' = dirReads + 1
    /\ UNCHANGED <<flagVars, localFile, exitCode, err, zipNames, file,
                   fileExists, fileLen, sent>>
    /\ UNCHANGED workerVars

\* the read returns: the parser wants another read, has the directory, or fails
ZipNewDone ==
    /\ mpc = "zipNewWait"
    /\ inflight' = inflight - 1
    /\ \E o \in {"more", "ok", "fail"} :
         IF o = "more"
         THEN /\ dirReads < MaxDirReads
              /\ mpc' = "zipNew"
              /\ UNCHANGED <<exitCode, zipNames>>
         ELSE IF o = "ok"
         THEN /\ mpc' = "mode"
              /\ zipNames' \in ZipDirs
              /\ UNCHANGED exitCode
         ELSE Exit(1) /\ UNCHANGED zipNames
    /\ UNCHANGED <<flagVars, localFile, err, dirReads, file, fileExists,
                   fileLen, sent>>
    /\ UNCHANGED workerVars

\* if showFiles { listFiles(zipreader); return }
MainMode ==
    /\ mpc = "mode"
    /\ IF showFiles THEN Exit(0) ELSE mpc' = "create" /\ UNCHANGED exitCode
    /\ UNCHANGED <<flagVars, localFile, err, dirReads, zipNames, file,
                   fileExists, fileLen, sent, inflight>>
    /\ UNCHANGED workerVars

\* os.Create(localFile), or os.Stdout for "-"
MainCreate ==
    /\ mpc = "create"
    /\ IF localFile = <<"-">>
       THEN mpc' = "find" /\ UNCHANGED <<exitCode, fileExists, fileLen>>
       ELSE \E ok \in BOOLEAN :
              IF ok
              THEN /\ fileExists' = TRUE
                   /\ fileLen' = 0
                   /\ mpc' = "find"
                   /\ UNCHANGED exitCode
              ELSE Exit(1) /\ UNCHANGED <<fileExists, fileLen>>
    /\ UNCHANGED <<flagVars, localFile, err, dirReads, zipNames, file, sent,
                   inflight>>
    /\ UNCHANGED workerVars

\* findFile: the index of the first entry named filename, 0 when there is none
RECURSIVE FindFrom(_, _, _)
FindFrom(names, filename, i) ==
    IF i > Len(names) THEN 0
    ELSE IF names[i] = filename THEN i
    ELSE FindFrom(names, filename, i + 1)

findFile(names, filename) == FindFrom(names, filename, 1)

MainFind ==
    /\ mpc = "find"
    /\ IF findFile(zipNames, remoteFile) = 0
       THEN Exit(1) /\ UNCHANGED file
       ELSE /\ file' \in Entries
            /\ mpc' = "download"
            /\ UNCHANGED exitCode
    /\ UNCHANGED <<flagVars, localFile, err, dirReads, zipNames, fileExists,
                   fileLen, sent, inflight>>
    /\ UNCHANGED workerVars

\* mutant of AfterSpawn: main does not wait for the worker and goes back to
\* reading the archive directory while the worker runs
AfterSpawn_NoWait == "zipNew"

\* where the main sequence is once downloadFile has started its worker
AfterSpawn == "recv"

\* downloadFile: errCh := make(chan error); go func() {...}()
MainDownload ==
    /\ mpc = "download"
    /\ wpc' = "open"
    /\ mpc' = AfterSpawn
    /\ UNCHANGED <<flagVars, localFile, exitCode, err, dirReads, zipNames,
                   file, fileExists, fileLen, sent, inflight>>
    /\ UNCHANGED <<sendVal, rcState, nread, downloaded, pct, iters, dataReads,
                   touched, openFailed, readFailed>>

\* mutant of AfterOpenFailSend: the return after errCh <- err is missing, so
\* the worker falls through into the copy loop and sends a second time
AfterOpenFailSend_NoReturn == "loop"

\* where the worker is once its send of the Open error has been received
AfterOpenFailSend == "exited"

\* return <-errCh: the unbuffered channel hands one value over
Rendezvous ==
    /\ mpc = "recv"
    /\ wpc \in {"sendErr", "sendNil"}
    /\ err' = sendVal
    /\ sent' = Bump(sent)
    /\ mpc' = "check"
    /\ wpc' = IF wpc = "sendErr" THEN AfterOpenFailSend ELSE "exited"
    /\ rcState' = IF wpc = "sendNil" THEN "closed" ELSE rcState
    /\ UNCHANGED <<flagVars, localFile, exitCode, dirReads, zipNames, file,
                   fileExists, fileLen, inflight>>
    /\ UNCHANGED <<sendVal, nread, downloaded, pct, iters, dataReads, touched,
                   openFailed, readFailed>>

\* err = downloadFile(...); if err != nil { os.Exit(1) }; main returns
MainCheck ==
    /\ mpc = "check"
    /\ Exit(IF err # "nil" THEN 1 ELSE 0)
    /\ UNCHANGED <<flagVars, localFile, err, dirReads, zipNames, file,
                   fileExists, fileLen, sent, inflight>>
    /\ UNCHANGED workerVars

----------------------------------------------------------------------------
(* downloadFile's background worker: src/main.go 100-134 *)

WorkerAlive == mpc # "exit"

\* rc, err := file.Open(): the entry's local header is read
WorkerOpenStart ==
    /\ WorkerAlive
    /\ wpc = "open"
    /\ wpc' = "openWait"
    /\ inflight' = inflight + 1
    /\ UNCHANGED <<flagVars, localFile, mpc, exitCode, err, dirReads,
                   zipNames, file, fileExists, fileLen, sent>>
    /\ UNCHANGED <<sendVal, rcState, nread, downloaded, pct, iters, dataReads,
                   touched, openFailed, readFailed>>

\* if err != nil { errCh <- err; return }; buf, downloaded, filesize
WorkerOpenDone ==
    /\ WorkerAlive
    /\ wpc = "openWait"
    /\ inflight' = inflight - 1
    /\ \E ok \in BOOLEAN :
         IF ok
         THEN /\ rcState' = "open"
              /\ downloaded' = 0
              /\ wpc' = "loop"
              /\ UNCHANGED <<sendVal, openFailed>>
         ELSE /\ sendVal' = "err"
              /\ openFailed' = TRUE
              /\ wpc' = "sendErr"
              /\ UNCHANGED <<rcState, downloaded>>
    /\ UNCHANGED <<flagVars, localFile, mpc, exitCode, err, dirReads,
                   zipNames, file, fileExists, fileLen, sent>>
    /\ UNCHANGED <<nread, pct, iters, dataReads, touched, readFailed>>

\* whether a read of rc reaches the entry's data region of the remote resource
Touches(st, nr, f) == st = "open" /\ (f.method = "Deflate" \/ nr < f.actual)

\* io.ReadFull(rc, buf) is called
WorkerReadStart ==
    /\ WorkerAlive
    /\ wpc = "loop"
    /\ wpc' = "reading"
    /\ touched' = Touches(rcState, nread, file)
    /\ inflight' = IF touched' THEN inflight + 1 ELSE inflight
    /\ dataReads' = IF touched' THEN Bump(dataReads) ELSE dataReads
    /\ UNCHANGED <<flagVars, localFile, mpc, exitCode, err, dirReads,
                   zipNames, file, fileExists, fileLen, sent>>
    /\ UNCHANGED <<sendVal, rcState, nread, downloaded, pct, iters,
                   openFailed, readFailed>>

\* what io.ReadFull(rc, buf) may return: n, and the state it leaves rc in
ReadFullOutcomes(st, nr, f, t) ==
    IF st # "open" THEN {[n |-> 0, st |-> st]}
    ELSE LET r == Min(f.actual, f.usize) - nr
         IN  {[n |-> BufSize, st |-> "open"] :
                 x \in IF r >= BufSize THEN {1} ELSE {}}
             \cup
             {[n |-> r, st |-> "eof"] :
                 x \in IF r < BufSize /\ f.actual = f.usize THEN {1} ELSE {}}
             \cup
             {[n |-> k, st |-> "err"] :
                 k \in {j \in 0..Min(r, BufSize - 1) : t \/ j = r}}

\* mutant of HasData: the loop tests n >= 0
HasData_NonNegative(n) == n >= 0

\* if n, _ := io.ReadFull(rc, buf); n > 0
HasData(n) == n > 0

\* mutant of SendValue: the worker sends the error of its last io.ReadFull,
\* which is io.EOF at the end of every entry
SendValue_LastReadErr == IF rcState' = "open" THEN "nil" ELSE "err"

\* errCh <- nil
SendValue == "nil"

\* the body of one iteration of the copy loop, once io.ReadFull has returned
WorkerReadDone ==
    /\ WorkerAlive
    /\ wpc = "reading"
    /\ inflight' = IF touched THEN inflight - 1 ELSE inflight
    /\ touched' = FALSE
    /\ iters' = Bump(iters)
    /\ \E o \in ReadFullOutcomes(rcState, nread, file, touched) :
         /\ rcState' = o.st
         /\ nread' = nread + o.n
         /\ readFailed' = (readFailed \/ o.st = "err")
         /\ IF HasData(o.n)
            THEN /\ fileLen' = fileLen + o.n
                 /\ downloaded' = downloaded + o.n
                 /\ UNCHANGED sendVal
                 /\ IF ~verbose
                    THEN /\ wpc' = "loop"
                         /\ UNCHANGED <<pct, mpc, exitCode>>
                    ELSE IF file.usize = 0
                    THEN \* integer divide by zero: the process panics
                         /\ wpc' = "panic"
                         /\ Exit(2)
                         /\ UNCHANGED pct
                    ELSE /\ pct' = (downloaded' * 100) \div file.usize
                         /\ wpc' = "loop"
                         /\ UNCHANGED <<mpc, exitCode>>
            ELSE /\ wpc' = "sendNil"
                 /\ sendVal' = SendValue
                 /\ UNCHANGED <<fileLen, downloaded, pct, mpc, exitCode>>
    /\ UNCHANGED <<flagVars, localFile, err, dirReads, zipNames, file,
                   fileExists, sent>>
    /\ UNCHANGED <<dataReads, openFailed>>

----------------------------------------------------------------------------
Worker == WorkerOpenStart \/ WorkerOpenDone \/ WorkerReadStart \/ WorkerReadDone

Next ==
    \/ InitFlags
    \/ NewReaderStart
    \/ NewReaderDone
    \/ ZipNewStart
    \/ ZipNewDone
    \/ MainMode
    \/ MainCreate
    \/ MainFind
    \/ MainDownload
    \/ Rendezvous
    \/ MainCheck
    \/ WorkerOpenStart
    \/ WorkerOpenDone
    \/ WorkerReadStart
    \/ WorkerReadDone

Spec == Init /\ [][Next]_vars

\* the scheduler runs the worker, every read returns, the receiver is served
FairSpec == Spec /\ WF_vars(Worker) /\ WF_vars(Rendezvous)

TypeOK ==
    /\ mpc \in {"init", "newReader", "newReaderWait", "zipNew", "zipNewWait",
                "mode", "create", "find", "download", "recv", "check", "exit"}
    /\ wpc \in {"none", "open", "openWait", "loop", "reading", "sendErr",
                "sendNil", "exited", "panic"}
    /\ exitCode \in {-1, 0, 1, 2}
    /\ err \in {"nil", "err"}
    /\ rcState \in {"closed", "open", "eof", "err"}
    /\ nread \in 0..MaxSize /\ downloaded \in 0..MaxSize /\ fileLen \in 0..MaxSize
    /\ inflight \in 0..2

----------------------------------------------------------------------------
(* Claims *)

Finished == mpc \in {"check", "exit"}
Opened == file # NoFile /\ ~openFailed /\ wpc \notin {"none", "open", "openWait"}

\* C4: every failure while extracting the entry (file.Open failing, or a read
\* error at any point of the copy loop) reaches main as a non-nil error and
\* makes the process exit with a non-zero status.
C4_FailuresReachExit ==
    (mpc = "exit" /\ (openFailed \/ readFailed))
        => (err = "err" /\ exitCode \notin {-1, 0})

\* C5: at most one request against the remote resource is in flight at any
\* time; the worker exists, and reads, only while the main sequence is blocked
\* in downloadFile, and the main sequence reads only before it starts the worker.
C5_OneRequestInFlight ==
    /\ inflight <= 1
    /\ (wpc \in {"open", "openWait", "loop", "reading"} => mpc = "recv")
    /\ (mpc \in {"newReaderWait", "zipNewWait"} => wpc = "none")

\* C5, reached: the worker has a data read in flight while main waits
C5_WorkerReadsWhileMainWaits ==
    /\ wpc = "reading" /\ touched /\ inflight = 1
    /\ mpc = "recv" /\ dirReads = MaxDirReads /\ iters >= 1

\* C6: when extraction fails after the output file was created (entry not
\* found, entry not opened, a read failing part-way), the file does not stay
\* on disk holding partial entry content when the process has exited.
C6_NoPartialOutputLeft ==
    (/\ mpc = "exit"
     /\ fileExists
     /\ (openFailed \/ readFailed \/ file = NoFile))
        => ~(0 < fileLen /\ fileLen < file.usize)

C8_OneSendThenReturn ==
    /\ [](/\ sent <= 1
          /\ (wpc \in {"sendErr", "sendNil"} => mpc = "recv")
          /\ (Finished /\ wpc # "none" => sent = 1 /\ wpc = "exited")
          /\ (mpc = "recv" => sent = 0))
    /\ [][Finished => fileLen' = fileLen]_vars
    /\ (mpc = "recv" ~> mpc = "check")

\* C8, reached: downloadFile returned after a copy of several iterations
C8_ReturnedAfterCopy ==
    mpc = "check" /\ sent = 1 /\ wpc = "exited" /\ fileLen = MaxSize /\ iters >= 2

\* C9: with verbose enabled the running count downloaded never exceeds the
\* entry's declared size, the percentage passed to progressBar is within
\* 0..100, and it is never computed with filesize = 0.
C9_ProgressWithinBounds ==
    /\ wpc # "panic"
    /\ (verbose /\ file # NoFile)
          => (downloaded <= file.usize /\ pct \in 0..100)

\* C9, reached: a verbose copy of several iterations arrived at 100 percent
C9_ProgressReachesHundred ==
    /\ verbose /\ file # NoFile /\ iters >= 2
    /\ downloaded = file.usize /\ pct = 100

\* C10: in extraction mode without -o, init sets the output filename to the
\* base name of the remote entry name, for every non-empty remote entry name.
C10_DefaultIsBaseName ==
    [][(mpc = "init" /\ sourceURL /\ ~showFiles /\ remoteFile # <<>>
            /\ localFile = <<>>)
        => localFile' = Base(remoteFile)]_vars

====
